---- MODULE Spec2Model ----
(***************************************************************************)
(* A model of the GPT_bot storyboard-to-video pipeline:                    *)
(*   gpt_bot/video_generator.py  parse_storyboard, _pick_background_color, *)
(*                               _render_scene, build_video_from_storyboard*)
(*   gpt_bot/bot.py              generate_storyboard, handle_video_command *)
(* Strings are sequences of one-character strings, so that splitting,      *)
(* stripping and measuring are computed character by character.            *)
(***************************************************************************)
EXTENDS Integers, Sequences, FiniteSets

VARIABLES
    ps_storyboard,  \* parse_storyboard: the argument of the call
    ps_lines,       \* parse_storyboard: <<>> before the call, <<result>> after it
    rs_text,        \* _render_scene: the text argument
    rs_resolution,  \* _render_scene: the resolution argument, <<width, height>>
    rs_frame,       \* _render_scene: <<>> before the first call, then <<frame>>
    hash_salt,      \* the running interpreter's string-hash key
    build,          \* per invocation: the frame of build_video_from_storyboard
    handler,        \* per invocation: the frame of handle_video_command
    files,          \* the output directory: path -> [state, writer]
    dir_made,       \* whether output_path.parent.mkdir has created the directory
    clock           \* datetime.utcnow(), in whole seconds

parseVars  == <<ps_storyboard, ps_lines>>
renderVars == <<rs_text, rs_resolution, rs_frame, hash_salt>>
botVars    == <<build, handler, files, dir_made, clock>>
vars == <<parseVars, renderVars, botVars>>
\* What a step of build_video_from_storyboard cannot touch.
outsideBuild == <<handler, clock, parseVars, renderVars>>

(***************************************************************************)
(* Bounds of the model.                                                    *)
(***************************************************************************)
MaxStoryLen == 5
MaxTextLen == 5
MaxSalt == 2
MaxBuildLen == 5
MaxClock == 1

(***************************************************************************)
(* Generic helpers.                                                        *)
(***************************************************************************)
SeqsUpTo(S, n) == UNION {[1..k -> S] : k \in 0..n}

(***************************************************************************)
(* parse_storyboard (video_generator.py 47-55).                            *)
(***************************************************************************)
\* The characters line.strip(" -*\t") removes from both ends of a line.
StripChars == {" ", "-", "*", "\t"}

\* Line boundaries of str.splitlines() that occur in the modelled alphabet.
LineBreaks == {"\n", "\r"}

StoryAlphabet == StripChars \cup LineBreaks \cup {"a", "b"}

\* str.splitlines(): a break ends the current line, "\r\n" is one break, and
\* a trailing break does not open a further, empty line.
RECURSIVE SplitFrom(_, _, _, _)
SplitFrom(s, i, cur, out) ==
    IF i > Len(s) THEN (IF cur = <<>> THEN out ELSE Append(out, cur))
    ELSE IF s[i] \in LineBreaks
         THEN LET skip == IF s[i] = "\r" /\ i < Len(s) /\ s[i + 1] = "\n"
                          THEN 2 ELSE 1
              IN  SplitFrom(s, i + skip, <<>>, Append(out, cur))
         ELSE SplitFrom(s, i + 1, Append(cur, s[i]), out)

splitlines(s) == SplitFrom(s, 1, <<>>, <<>>)

\* str.lstrip(chars) and str.rstrip(chars), one character at a time.
RECURSIVE LStrip(_, _)
LStrip(line, chars) ==
    IF line # <<>> /\ Head(line) \in chars THEN LStrip(Tail(line), chars) ELSE line

RECURSIVE RStrip(_, _)
RStrip(line, chars) ==
    IF line # <<>> /\ line[Len(line)] \in chars
    THEN RStrip(SubSeq(line, 1, Len(line) - 1), chars)
    ELSE line

strip(line, chars) == RStrip(LStrip(line, chars), chars)

\* The loop body of parse_storyboard, over the lines still to visit.
RECURSIVE ParseLines(_, _)
ParseLines(raw, lines) ==
    IF raw = <<>> THEN lines
    ELSE LET line == strip(Head(raw), StripChars)
         IN  IF line = <<>> THEN ParseLines(Tail(raw), lines)
             ELSE ParseLines(Tail(raw), Append(lines, line))

\* parse_storyboard without its "if not line: continue".
parse_storyboard_keep_empty(storyboard) ==
    LET raw == splitlines(storyboard)
    IN  [i \in 1..Len(raw) |-> strip(raw[i], StripChars)]

parse_storyboard(storyboard) == ParseLines(splitlines(storyboard), <<>>)

(***************************************************************************)
(* _pick_background_color (video_generator.py 20-44).  Fractions are kept  *)
(* in thousandths.                                                         *)
(***************************************************************************)
\* The k-th draw of random.Random(seed), in thousandths of the unit
\* interval: a fixed function of the seed and of the draw's position.
RngDraw(seed, k) == ((seed + 1) * (7919 * k + 104729)) % 1000

Abs(n) == IF n < 0 THEN -n ELSE n

pick_background_color(seed) ==
    LET hue        == (RngDraw(seed, 1) * 361) \div 1000
        saturation == 400 + (RngDraw(seed, 2) * 400) \div 1000
        value      == 600 + (RngDraw(seed, 3) * 300) \div 1000
        c          == (value * saturation) \div 1000
        x          == (c * (1000 - Abs((((hue * 1000) \div 60) % 2000) - 1000))) \div 1000
        m          == value - c
        rgb        == IF hue < 60 THEN <<c, x, 0>>
                      ELSE IF hue < 120 THEN <<x, c, 0>>
                      ELSE IF hue < 180 THEN <<0, c, x>>
                      ELSE IF hue < 240 THEN <<0, x, c>>
                      ELSE IF hue < 300 THEN <<x, 0, c>>
                      ELSE <<c, 0, x>>
    IN  [i \in 1..3 |-> ((rgb[i] + m) * 255) \div 1000]

(***************************************************************************)
(* _render_scene (video_generator.py 58-102).                              *)
(***************************************************************************)
Margin == 80
LineGap == 5
SeedModulus == 10000

TextAlphabet == {"a", "W", " "}

\* The canvas sizes the calls are made with: text widths of 4, 6 and none.
Resolutions == {<<84, 20>>, <<86, 31>>, <<70, 40>>}

HashSalts == 0..MaxSalt

\* The font's metrics: a glyph's advance and its height above the baseline.
Advance(ch) == IF ch = "W" THEN 5 ELSE 1
GlyphHeight(ch) == IF ch = "W" THEN 3 ELSE IF ch = "a" THEN 2 ELSE 0
CharCode(ch) == IF ch = "W" THEN 87 ELSE IF ch = "a" THEN 97 ELSE 32

\* hash(text): the interpreter's keyed string hash, a function of the text and
\* of the key the interpreter drew when it started (kept to 16 bits here).
RECURSIVE HashFrom(_, _)
HashFrom(h, text) ==
    IF text = <<>> THEN h
    ELSE HashFrom((h * 31 + CharCode(Head(text))) % 65536, Tail(text))

\* The empty string hashes to 0 under every key.
hash(text, salt) ==
    IF text = <<>> THEN 0 ELSE HashFrom((salt * 40503) % 65536, text)

\* draw.textlength(line, font=font)
RECURSIVE textlength(_)
textlength(line) ==
    IF line = <<>> THEN 0 ELSE Advance(Head(line)) + textlength(Tail(line))

\* bbox[3] - bbox[1] of draw.textbbox((0, 0), line, font=font)
RECURSIVE bbox_height(_)
bbox_height(line) ==
    IF line = <<>> THEN 0
    ELSE LET rest == bbox_height(Tail(line))
             h    == GlyphHeight(Head(line))
         IN  IF h > rest THEN h ELSE rest

\* text.split(): the maximal runs of characters other than whitespace.
RECURSIVE SplitWords(_, _, _)
SplitWords(text, cur, out) ==
    IF text = <<>> THEN (IF cur = <<>> THEN out ELSE Append(out, cur))
    ELSE IF Head(text) = " "
         THEN SplitWords(Tail(text), <<>>, IF cur = <<>> THEN out ELSE Append(out, cur))
         ELSE SplitWords(Tail(text), Append(cur, Head(text)), out)

split(text) == SplitWords(text, <<>>, <<>>)

\* " ".join(words)
RECURSIVE join(_)
join(words) ==
    IF words = <<>> THEN <<>>
    ELSE IF Len(words) = 1 THEN words[1]
    ELSE words[1] \o <<" ">> \o join(Tail(words))

MaxTextWidthNoMargin(width) == width

max_text_width(width) == width - Margin

\* The word loop of lines 75-88 and the flush after it.
RECURSIVE WrapWords(_, _, _, _)
WrapWords(words, lines, current_line, limit) ==
    IF words = <<>>
    THEN (IF current_line # <<>> THEN Append(lines, join(current_line)) ELSE lines)
    ELSE LET word      == Head(words)
             tentative == IF current_line # <<>>
                          THEN join(Append(current_line, word)) ELSE word
         IN  IF textlength(tentative) <= limit
             THEN WrapWords(Tail(words), lines, Append(current_line, word), limit)
             ELSE IF current_line = <<>>
                  THEN WrapWords(Tail(words), Append(lines, tentative), <<>>, limit)
                  ELSE WrapWords(Tail(words), Append(lines, join(current_line)),
                                 <<word>>, limit)

RECURSIVE SumHeights(_)
SumHeights(lines) ==
    IF lines = <<>> THEN 0 ELSE bbox_height(Head(lines)) + SumHeights(Tail(lines))

\* The drawing loop of lines 93-100: each line with the place it is drawn at.
RECURSIVE DrawLines(_, _, _, _)
DrawLines(lines, y, width, drawn) ==
    IF lines = <<>> THEN drawn
    ELSE LET line        == Head(lines)
             text_width  == textlength(line)
             text_height == bbox_height(line)
             x           == (width - text_width) \div 2
         IN  DrawLines(Tail(lines), y + text_height + LineGap, width,
                       Append(drawn, [text |-> line, x |-> x, y |-> y,
                                      height |-> text_height]))

render_scene(text, resolution, salt) ==
    LET width  == resolution[1]
        height == resolution[2]
        seed   == hash(text, salt) % SeedModulus
        lines  == WrapWords(split(text), <<>>, <<>>, max_text_width(width))
        total_text_height == SumHeights(lines)
        y      == (height - total_text_height) \div 2
    IN  [size  |-> resolution,
         seed  |-> seed,
         color |-> pick_background_color(seed),
         lines |-> DrawLines(lines, y, width, <<>>)]

(***************************************************************************)
(* Specification of parse_storyboard as a call on an arbitrary text.       *)
(***************************************************************************)
IdleParse == ps_storyboard = <<>> /\ ps_lines = <<>>
IdleRender ==
    /\ rs_text = <<>> /\ rs_resolution = <<0, 0>> /\ rs_frame = <<>> /\ hash_salt = 0
IdleBot ==
    /\ build = <<>> /\ handler = <<>> /\ files = <<>> /\ dir_made = FALSE /\ clock = 0

InitParse ==
    /\ ps_storyboard \in SeqsUpTo(StoryAlphabet, MaxStoryLen)
    /\ ps_lines = <<>>
    /\ IdleRender
    /\ IdleBot

CallParse ==
    /\ ps_lines = <<>>
    /\ ps_lines' = <<parse_storyboard(ps_storyboard)>>
    /\ UNCHANGED <<ps_storyboard, renderVars, botVars>>

NextParse == CallParse

SpecParse == InitParse /\ [][NextParse]_vars

(***************************************************************************)
(* Specification of _render_scene: calls on one text and resolution, made  *)
(* in a process that may exit and be started again between two calls.      *)
(***************************************************************************)
InitRender ==
    /\ rs_text \in SeqsUpTo(TextAlphabet, MaxTextLen)
    /\ rs_resolution \in Resolutions
    /\ hash_salt \in HashSalts
    /\ rs_frame = <<>>
    /\ IdleParse
    /\ IdleBot

CallRender ==
    /\ rs_frame' = <<render_scene(rs_text, rs_resolution, hash_salt)>>
    /\ UNCHANGED <<rs_text, rs_resolution, hash_salt, parseVars, botVars>>

\* The interpreter starts anew and draws its string-hash key.
RestartProcess ==
    /\ hash_salt' \in HashSalts
    /\ UNCHANGED <<rs_text, rs_resolution, rs_frame, parseVars, botVars>>

NextRender == CallRender \/ RestartProcess

SpecRender == InitRender /\ [][NextRender]_vars

(***************************************************************************)
(* build_video_from_storyboard (video_generator.py 105-138), one action    *)
(* per statement that another thread can observe.  The calls into Pillow,  *)
(* moviepy and the file system either succeed or raise.                    *)
(***************************************************************************)
BuildAlphabet == {"-", "\n", "a"}

Durations == {1, 7, 60}

\* settings.output_dir / f"video_{timestamp}.mp4"
PathOf(timestamp) == <<"videos", timestamp>>

Paths == {PathOf(t) : t \in 0..MaxClock}

NoFile == [state |-> "absent", writer |-> 0]

IdleBuild ==
    [pc |-> "idle", storyboard |-> <<>>, output_path |-> <<>>, duration |-> 0,
     scenes |-> <<>>, per_scene_duration |-> [num |-> 0, den |-> 1],
     clips |-> <<>>, video |-> "none", exc |-> "none", renders |-> 0,
     wrote |-> FALSE]

\* The frame at the call: build_video_from_storyboard(storyboard, output_path, duration)
CalledBuild(storyboard, output_path, duration) ==
    [IdleBuild EXCEPT !.pc = "parse", !.storyboard = storyboard,
                      !.output_path = output_path, !.duration = duration]

Raise(p, name) ==
    build' = [build EXCEPT ![p] = [@ EXCEPT !.pc = "raised", !.exc = name]]

\* duration / len(scenes), as the fraction num/den
FloorDivide(duration, n) == [num |-> duration \div n, den |-> 1]

Divide(duration, n) == [num |-> duration, den |-> n]

\* Lines 112-114 without the "if not scenes" check.
BuildParseNoCheck(p) ==
    /\ build[p].pc = "parse"
    /\ build' = [build EXCEPT ![p] =
                    [@ EXCEPT !.scenes = parse_storyboard(build[p].storyboard),
                              !.pc = "mkdir"]]
    /\ UNCHANGED <<files, dir_made, outsideBuild>>

\* Lines 112-114: scenes = parse_storyboard(storyboard); if not scenes: raise
BuildParse(p) ==
    /\ build[p].pc = "parse"
    /\ LET scenes == parse_storyboard(build[p].storyboard)
       IN  IF scenes = <<>>
           THEN Raise(p, "VideoGenerationError")
           ELSE build' = [build EXCEPT ![p] =
                              [@ EXCEPT !.scenes = scenes, !.pc = "mkdir"]]
    /\ UNCHANGED <<files, dir_made, outsideBuild>>

\* Lines 116-119: mkdir(parents=True, exist_ok=True); per_scene_duration; clips = []
BuildMkdir(p) ==
    /\ build[p].pc = "mkdir"
    /\ \/ /\ Raise(p, "OSError")
          /\ UNCHANGED <<dir_made, outsideBuild>>
       \/ /\ dir_made' = TRUE
          /\ IF Len(build[p].scenes) = 0
             THEN Raise(p, "ZeroDivisionError")
             ELSE build' = [build EXCEPT ![p] =
                      [@ EXCEPT !.per_scene_duration =
                                    Divide(build[p].duration, Len(build[p].scenes)),
                                !.clips = <<>>,
                                !.pc = "render"]]
    /\ UNCHANGED <<files, outsideBuild>>

\* Lines 120-123, one turn of the loop: render the next scene, make its clip.
BuildRenderScene(p) ==
    /\ build[p].pc = "render"
    /\ LET b     == build[p]
           k     == Len(b.clips) + 1
           clip  == [scene |-> b.scenes[k], duration |-> b.per_scene_duration,
                     closed |-> FALSE]
       IN  \/ build' = [build EXCEPT ![p] =
                           [@ EXCEPT !.renders = b.renders + 1,
                                     !.pc = "raised", !.exc = "Exception"]]
           \/ build' = [build EXCEPT ![p] =
                           [@ EXCEPT !.renders = b.renders + 1,
                                     !.clips = Append(b.clips, clip),
                                     !.pc = IF k = Len(b.scenes)
                                            THEN "concat" ELSE "render"]]
    /\ UNCHANGED <<files, dir_made, outsideBuild>>

\* Line 125: video = concatenate_videoclips(clips, method="compose")
BuildConcatenate(p) ==
    /\ build[p].pc = "concat"
    /\ \/ Raise(p, "Exception")
       \/ build' = [build EXCEPT ![p] = [@ EXCEPT !.video = "open", !.pc = "write"]]
    /\ UNCHANGED <<files, dir_made, outsideBuild>>

\* Line 126, first half: write_videofile opens the encoder on output_path,
\* replacing what is there, or fails before it has created the file.
BuildWriteBegin(p) ==
    /\ build[p].pc = "write"
    /\ \/ /\ Raise(p, "Exception")
          /\ UNCHANGED <<files, outsideBuild>>
       \/ /\ build' = [build EXCEPT ![p] =
                          [@ EXCEPT !.wrote = TRUE, !.pc = "writing"]]
          /\ files' = [files EXCEPT ![build[p].output_path] =
                          [state |-> "partial", writer |-> p]]
    /\ UNCHANGED <<dir_made, outsideBuild>>

\* Line 126, second half: the encoder finishes the file, or fails and leaves
\* what it has written.
BuildWriteEnd(p) ==
    /\ build[p].pc = "writing"
    /\ \/ /\ Raise(p, "Exception")
          /\ UNCHANGED <<files, outsideBuild>>
       \/ /\ build' = [build EXCEPT ![p] = [@ EXCEPT !.pc = "close"]]
          /\ files' = [files EXCEPT ![build[p].output_path] =
                          [state |-> "complete", writer |-> p]]
    /\ UNCHANGED <<dir_made, outsideBuild>>

\* Lines 134-138: video.close(); every clip.close(); return output_path
BuildClose(p) ==
    /\ build[p].pc = "close"
    /\ build' = [build EXCEPT ![p] =
                    [@ EXCEPT !.video = "closed",
                              !.clips = [i \in 1..Len(build[p].clips) |->
                                            [build[p].clips[i] EXCEPT !.closed = TRUE]],
                              !.pc = "returned"]]
    /\ UNCHANGED <<files, dir_made, outsideBuild>>

(***************************************************************************)
(* Specification of build_video_from_storyboard: one call, on an arbitrary *)
(* storyboard and duration.                                                *)
(***************************************************************************)
BuildProcs == {1}

InitBuild ==
    /\ \E storyboard \in SeqsUpTo(BuildAlphabet, MaxBuildLen), duration \in Durations :
          build = [p \in BuildProcs |-> CalledBuild(storyboard, PathOf(0), duration)]
    /\ handler = <<>>
    /\ files = [path \in Paths |-> NoFile]
    /\ dir_made = FALSE
    /\ clock = 0
    /\ IdleParse
    /\ IdleRender

NextBuild ==
    \E p \in BuildProcs :
        \/ BuildParse(p)
        \/ BuildMkdir(p)
        \/ BuildRenderScene(p)
        \/ BuildConcatenate(p)
        \/ BuildWriteBegin(p)
        \/ BuildWriteEnd(p)
        \/ BuildClose(p)

SpecBuild == InitBuild /\ [][NextBuild]_vars

(***************************************************************************)
(* handle_video_command (bot.py 118-158), one action per stretch of code   *)
(* between two awaits.  Each invocation is a coroutine of the dispatcher's *)
(* event loop; its build runs in a thread of the default executor.         *)
(***************************************************************************)
VideoDuration == 60

\* What the language model may answer, after generate_storyboard's strip():
\* markers only, one scene, two scenes.
BotStoryboards == {<<"-", " ", "*">>, <<"a">>, <<"-", "a", "\n", "-", "b">>}

ReceivedHandler ==
    [pc |-> "received", status |-> "none", requests |-> 0, builds |-> 0,
     storyboard |-> <<>>, output_path |-> <<>>, sent |-> NoFile,
     remove_attempted |-> FALSE]

outsideHandler == <<parseVars, renderVars>>

\* Lines 119-131: no text, no prompt after the command, or the first status.
HandleMessage(p) ==
    /\ handler[p].pc = "received"
    /\ \E kind \in {"no_text", "no_prompt", "prompt"} :
          handler' = [handler EXCEPT ![p] =
              IF kind = "no_text" THEN [@ EXCEPT !.pc = "done"]
              ELSE IF kind = "no_prompt"
                   THEN [@ EXCEPT !.status = "usage", !.pc = "done"]
                   ELSE [@ EXCEPT !.status = "generating", !.pc = "generate"]]
    /\ UNCHANGED <<build, files, dir_made, clock, outsideHandler>>

\* Lines 133 and 147-150: generate_storyboard raises (no choices, no text).
GenerateStoryboardFails(p) ==
    /\ handler[p].pc = "generate"
    /\ handler' = [handler EXCEPT ![p] =
                      [@ EXCEPT !.requests = @ + 1, !.status = "error", !.pc = "done"]]
    /\ UNCHANGED <<build, files, dir_made, clock, outsideHandler>>

\* Lines 133-140: the storyboard arrives, the output path is named after the
\* current second, the status is edited and the build is handed to a thread.
GenerateStoryboard(p) ==
    /\ handler[p].pc = "generate"
    /\ \E content \in BotStoryboards :
          /\ handler' = [handler EXCEPT ![p] =
                            [@ EXCEPT !.requests = @ + 1,
                                      !.storyboard = <<content>>,
                                      !.output_path = PathOf(clock),
                                      !.status = "creating",
                                      !.builds = @ + 1,
                                      !.pc = "building"]]
          /\ build' = [build EXCEPT ![p] =
                          CalledBuild(content, PathOf(clock), VideoDuration)]
    /\ UNCHANGED <<files, dir_made, clock, outsideHandler>>

\* Lines 141-146 taken twice: the request is made again.
HandleNoScenesRetry(p) ==
    /\ handler[p].pc = "building"
    /\ build[p].pc = "raised"
    /\ build[p].exc = "VideoGenerationError"
    /\ handler' = [handler EXCEPT ![p] =
                      IF handler[p].requests < 2
                      THEN [@ EXCEPT !.status = "generating", !.pc = "generate"]
                      ELSE [@ EXCEPT !.status = "no_scenes", !.pc = "done"]]
    /\ UNCHANGED <<build, files, dir_made, clock, outsideHandler>>

\* Lines 141-146: except VideoGenerationError
HandleNoScenes(p) ==
    /\ handler[p].pc = "building"
    /\ build[p].pc = "raised"
    /\ build[p].exc = "VideoGenerationError"
    /\ handler' = [handler EXCEPT ![p] = [@ EXCEPT !.status = "no_scenes", !.pc = "done"]]
    /\ UNCHANGED <<build, files, dir_made, clock, outsideHandler>>

\* Lines 147-150: except Exception
HandleFailure(p) ==
    /\ handler[p].pc = "building"
    /\ build[p].pc = "raised"
    /\ build[p].exc # "VideoGenerationError"
    /\ handler' = [handler EXCEPT ![p] = [@ EXCEPT !.status = "error", !.pc = "done"]]
    /\ UNCHANGED <<build, files, dir_made, clock, outsideHandler>>

\* Line 152: the build has returned final_path.
HandleVideoReady(p) ==
    /\ handler[p].pc = "building"
    /\ build[p].pc = "returned"
    /\ handler' = [handler EXCEPT ![p] = [@ EXCEPT !.status = "ready", !.pc = "send"]]
    /\ UNCHANGED <<build, files, dir_made, clock, outsideHandler>>

\* Line 153: answer_video uploads what is at final_path now; it raises, and
\* the invocation ends, when nothing is there.
SendVideo(p) ==
    /\ handler[p].pc = "send"
    /\ LET file == files[handler[p].output_path]
       IN  handler' = [handler EXCEPT ![p] =
               IF file.state = "absent" THEN [@ EXCEPT !.pc = "done"]
               ELSE [@ EXCEPT !.sent = file, !.pc = "remove"]]
    /\ UNCHANGED <<build, files, dir_made, clock, outsideHandler>>

\* Lines 155-158: os.remove(final_path); an OSError is logged.
RemoveFile(p) ==
    /\ handler[p].pc = "remove"
    /\ handler' = [handler EXCEPT ![p] =
                      [@ EXCEPT !.remove_attempted = TRUE, !.pc = "done"]]
    /\ files' = [files EXCEPT ![handler[p].output_path] = NoFile]
    /\ UNCHANGED <<build, dir_made, clock, outsideHandler>>

\* A second passes.
Tick ==
    /\ clock < MaxClock
    /\ clock' = clock + 1
    /\ UNCHANGED <<build, handler, files, dir_made, outsideHandler>>

(***************************************************************************)
(* Specification of the bot: two /video commands handled concurrently.     *)
(***************************************************************************)
BotProcs == {1, 2}

InitBot ==
    /\ build = [p \in BotProcs |-> IdleBuild]
    /\ handler = [p \in BotProcs |-> ReceivedHandler]
    /\ files = [path \in Paths |-> NoFile]
    /\ dir_made = FALSE
    /\ clock = 0
    /\ IdleParse
    /\ IdleRender

NextBot ==
    \/ Tick
    \/ \E p \in BotProcs :
        \/ HandleMessage(p)
        \/ GenerateStoryboardFails(p)
        \/ GenerateStoryboard(p)
        \/ BuildParse(p)
        \/ BuildMkdir(p)
        \/ BuildRenderScene(p)
        \/ BuildConcatenate(p)
        \/ BuildWriteBegin(p)
        \/ BuildWriteEnd(p)
        \/ BuildClose(p)
        \/ HandleNoScenes(p)
        \/ HandleFailure(p)
        \/ HandleVideoReady(p)
        \/ SendVideo(p)
        \/ RemoveFile(p)

SpecBot == InitBot /\ [][NextBot]_vars

(***************************************************************************)
(* C1: parse_storyboard returns as many scenes as the text has lines that  *)
(* hold at least one character other than space, dash, asterisk and tab    *)
(* (a blank line holds no character at all); the scenes are those lines,   *)
(* cut down to the span from their first to their last such character, in  *)
(* the order of the text, and equal lines give equal scenes, all kept.     *)
(***************************************************************************)
IsContent(c) == c \notin StripChars /\ c \notin LineBreaks

\* The positions of the text where a line's first content character stands.
ContentLineStarts(s) ==
    {i \in 1..Len(s) :
        /\ IsContent(s[i])
        /\ \A j \in 1..(i - 1) :
              (\A k \in j..(i - 1) : s[k] \notin LineBreaks) => s[j] \in StripChars}

HasContent(line) == \E i \in 1..Len(line) : line[i] \notin StripChars

ContentSpan(line) ==
    LET idx == {i \in 1..Len(line) : line[i] \notin StripChars}
        lo  == CHOOSE i \in idx : \A j \in idx : i <= j
        hi  == CHOOSE i \in idx : \A j \in idx : j <= i
    IN  SubSeq(line, lo, hi)

C1_ParseKeepsContentLines ==
    ps_lines # <<>> =>
        LET result == ps_lines[1]
            kept   == SelectSeq(splitlines(ps_storyboard), HasContent)
        IN  /\ Len(result) = Cardinality(ContentLineStarts(ps_storyboard))
            /\ result = [i \in 1..Len(kept) |-> ContentSpan(kept[i])]

\* A text of three lines, the middle one made of a marker only, whose two
\* other lines give the same scene twice.
C1_Witness ==
    /\ ps_storyboard = <<"a", "\n", "*", "\n", "a">>
    /\ ps_lines = << << <<"a">>, <<"a">> >> >>

(***************************************************************************)
(* C7: every line the word loop of _render_scene produces is at most       *)
(* (canvas width - 80) wide, unless it is one single word that is wider    *)
(* than that by itself.                                                    *)
(***************************************************************************)
C7_WrappedLinesFit ==
    rs_frame # <<>> =>
        \A i \in 1..Len(rs_frame[1].lines) :
            LET line == rs_frame[1].lines[i].text
                words == split(rs_text)
            IN  \/ textlength(line) <= rs_resolution[1] - 80
                \/ /\ \A k \in 1..Len(line) : line[k] # " "
                   /\ \E j \in 1..Len(words) : words[j] = line

\* A word wider than the text width on a line of its own, followed by a line
\* of two words.
C7_Witness ==
    /\ rs_frame # <<>>
    /\ rs_resolution[1] = 84
    /\ Len(rs_frame[1].lines) = 2
    /\ rs_frame[1].lines[1].text = <<"W">>
    /\ rs_frame[1].lines[2].text = <<"a", " ", "a">>

(***************************************************************************)
(* C8: two calls of _render_scene on the same text and resolution give the *)
(* same seed, color and layout, whichever run of the program makes them.   *)
(***************************************************************************)
C8_RenderDeterministic ==
    [][(rs_frame # <<>> /\ rs_frame' # <<>>) => rs_frame' = rs_frame]_vars

(***************************************************************************)
(* C10: the block of drawn lines, gaps included, is centered vertically:   *)
(* the space above the first line and the space below the last line differ *)
(* by at most one pixel.                                                   *)
(***************************************************************************)
C10_BlockCentered ==
    (rs_frame # <<>> /\ rs_frame[1].lines # <<>>) =>
        LET drawn  == rs_frame[1].lines
            last   == drawn[Len(drawn)]
            above  == drawn[1].y
            below  == rs_resolution[2] - (last.y + last.height)
        IN  Abs(above - below) <= 1

(***************************************************************************)
(* C2: a storyboard without any scene makes build_video_from_storyboard    *)
(* raise VideoGenerationError at once: no scene is rendered, no clip and   *)
(* no video is made, no directory and no file is created.                  *)
(***************************************************************************)
C2_NoScenesFailsFirst ==
    \A p \in DOMAIN build :
        LET b == build[p]
        IN  (b.pc # "idle" /\ ContentLineStarts(b.storyboard) = {}) =>
                /\ b.pc \in {"parse", "raised"}
                /\ b.pc = "raised" => b.exc = "VideoGenerationError"
                /\ b.renders = 0
                /\ b.clips = <<>>
                /\ b.video = "none"
                /\ ~dir_made
                /\ \A path \in DOMAIN files : files[path].state = "absent"

\* The call on a storyboard of two bullet markers has ended.
C2_Witness ==
    \E p \in DOMAIN build :
        /\ build[p].storyboard = <<"-", "\n", "-">>
        /\ build[p].pc = "raised"
        /\ build[p].exc = "VideoGenerationError"

(***************************************************************************)
(* C3: once the clip loop has run, there is one clip per scene, in scene   *)
(* order, each lasting duration / N, and the clips' durations add up to    *)
(* the requested duration.                                                 *)
(***************************************************************************)
RECURSIVE SumDurations(_)
SumDurations(clips) ==
    IF clips = <<>> THEN [num |-> 0, den |-> 1]
    ELSE LET d    == Head(clips).duration
             rest == SumDurations(Tail(clips))
         IN  [num |-> d.num * rest.den + rest.num * d.den, den |-> d.den * rest.den]

C3_EqualSplit ==
    \A p \in DOMAIN build :
        LET b == build[p]
            N == Cardinality(ContentLineStarts(b.storyboard))
            total == SumDurations(b.clips)
        IN  b.pc \in {"concat", "write", "writing", "close", "returned"} =>
                /\ N >= 1
                /\ Len(b.clips) = N
                /\ \A i \in 1..N :
                      /\ b.clips[i].scene = b.scenes[i]
                      /\ b.clips[i].duration.num * N = b.duration * b.clips[i].duration.den
                /\ total.num = b.duration * total.den

\* Three scenes share seven seconds, and the call has returned.
C3_Witness ==
    \E p \in DOMAIN build :
        /\ build[p].pc = "returned"
        /\ Len(build[p].clips) = 3
        /\ build[p].duration = 7

(***************************************************************************)
(* C4: when build_video_from_storyboard ends, by return or by exception,   *)
(* every clip it made and the concatenated video are closed.               *)
(***************************************************************************)
C4_AllClosedAtEnd ==
    \A p \in DOMAIN build :
        build[p].pc \in {"returned", "raised"} =>
            /\ build[p].video # "open"
            /\ \A i \in 1..Len(build[p].clips) : build[p].clips[i].closed

(***************************************************************************)
(* C5: two invocations of handle_video_command that run at the same time   *)
(* have distinct output paths, and an invocation sends only a file that    *)
(* its own build wrote.                                                    *)
(***************************************************************************)
HasOutputPath(p) == handler[p].pc \in {"building", "send", "remove"}

C5_DistinctOutputFiles ==
    /\ \A p, q \in DOMAIN handler :
          (p # q /\ HasOutputPath(p) /\ HasOutputPath(q)) =>
              handler[p].output_path # handler[q].output_path
    /\ \A p \in DOMAIN handler : handler[p].sent.writer \in {0, p}

(***************************************************************************)
(* C6: an invocation whose build failed after it began to write the output *)
(* file ends with the failure message and never with the partial file      *)
(* still there and no removal attempted.                                   *)
(***************************************************************************)
C6_PartialFileCleanedUp ==
    \A p \in DOMAIN handler :
        (/\ handler[p].pc = "done"
         /\ build[p].pc = "raised"
         /\ build[p].wrote) =>
            /\ handler[p].status = "error"
            /\ \/ handler[p].remove_attempted
               \/ files[handler[p].output_path].state = "absent"

(***************************************************************************)
(* C9: an invocation whose storyboard holds no scene ends with the "try a  *)
(* different prompt" status, has sent no video, has asked for a storyboard *)
(* exactly once and has started one build at most; no invocation ever asks *)
(* or builds twice.                                                        *)
(***************************************************************************)
C9_NoScenesNoRetry ==
    \A p \in DOMAIN handler :
        LET h == handler[p]
        IN  /\ h.requests <= 1
            /\ h.builds <= 1
            /\ (/\ h.pc = "done"
                /\ h.storyboard # <<>>
                /\ ContentLineStarts(h.storyboard[1]) = {}) =>
                   /\ h.status = "no_scenes"
                   /\ h.sent = NoFile
                   /\ h.requests = 1
                   /\ h.builds = 1
                   /\ build[p].renders = 0

\* An invocation has ended on a storyboard of markers only.
C9_Witness ==
    \E p \in DOMAIN handler :
        /\ handler[p].pc = "done"
        /\ handler[p].storyboard = << <<"-", " ", "*">> >>
        /\ handler[p].status = "no_scenes"

====
